---- MODULE Spec2Model ----
(***************************************************************************)
(* A model of the intrusive splay tree: the erased engine of               *)
(* src/src/internal.rs (find, insert, remove, min, max, pop_root, pop_min, *)
(* pop_max and the top-down splay) driven through the typed facade of      *)
(* src/src/lib.rs, over a pool of caller-owned records.                    *)
(***************************************************************************)
EXTENDS Integers, Sequences, FiniteSets, Bags, TLC

\* Number of records in the caller's arena.
NumElems == 7
\* Number of distinct key values carried by the records.
NumKeys == 5
\* Longest sequence of records the test harness builds a tree from.
MaxLen == 4
\* Number of records the two indexes of Multiple are built over.
NumMulti == 3

\* Option::None for a slot, the root or a returned reference.
None == 0
\* The records.  A Link Node is identified with its address: that of the
\* record plus the offset of the node's field in it.  Single's one node and
\* Multiple's by_x are at offset 0, Multiple's by_y at offset NumElems.
Elems == 1..NumElems
\* The Link Nodes of all the records.
Nodes == 1..(2 * NumElems)
\* The sentinel `let null = Node::default()` local to splay.
null == 2 * NumElems + 1
\* The keys a caller may probe with: one below and one above every record key.
Keys == 0..(NumKeys + 1)

\* Single::value of a record; records beyond NumKeys repeat earlier keys.
KeyOf(e) == ((e - 1) % NumKeys) + 1

\* usize::cmp.
cmp(a, b) == IF a < b THEN "Less" ELSE IF a > b THEN "Greater" ELSE "Equal"

\* The tags of Multiple's two indexes, named after the node fields they bind.
Tags == {"by_x", "by_y"}

\* offset_of!(Self::Elem, $node) for the tag's binding.
offset_of(tag) == IF tag = "by_y" THEN NumElems ELSE 0

\* IntrusiveNode::elem_to_node with both tags bound to the same field.
elem_to_node_SameField(tag, elem) == elem

\* IntrusiveNode::elem_to_node: &elem.$node.
elem_to_node(tag, elem) == elem + offset_of(tag)

\* IntrusiveNode::node_to_elem: the node's address less the field's offset.
node_to_elem(tag, node) == node - offset_of(tag)

\* Multiple::x and Multiple::y of a record: the records' order by y is not
\* their order by x, and the last record's y repeats the first one's.
XOf(e) == KeyOf(e)
YOf(e) == ((NumMulti - e) % (NumMulti - 1)) + 1

\* The comparators handed to the engine.
Query(k) == [kind |-> "Query", key |-> k]
TagQuery(tag, k) == [kind |-> tag, key |-> k]
MinNode == [kind |-> "MinNode", key |-> None]
MaxNode == [kind |-> "MaxNode", key |-> None]

\* CompareToNode::compare_to_node for MinNode, MaxNode and Query<K, T>, the
\* last by T::node_to_elem and K's tree_cmp for T.
compare_to_node(key, node) ==
    CASE key.kind = "MinNode" -> "Less"
      [] key.kind = "MaxNode" -> "Greater"
      [] key.kind = "by_x" -> cmp(key.key, XOf(node_to_elem("by_x", node)))
      [] key.kind = "by_y" -> cmp(key.key, YOf(node_to_elem("by_y", node)))
      [] OTHER -> cmp(key.key, KeyOf(node))

\* panic: whether the last call panicked; visited: the elements the visitor
\* was called on during the last call; rootY: the root of the by_y tree where
\* the records are indexed twice; loop: the locals of a splay that is being
\* followed iteration by iteration, Idle when none is.
VARIABLES root, left, right, op, arg, ret, retb, members, xs, popped, phase,
          panic, visited, rootY, loop

vars == <<root, left, right, op, arg, ret, retb, members, xs, popped, phase,
          panic, visited, rootY, loop>>

\* The tree and the slots of every record, as one value.
Heap == [root |-> root, left |-> left, right |-> right]

\* No splay is under way.
Idle == [pc |-> "idle"]

----
\* The splay loop.  A loop state holds the slots (with the sentinel's), the
\* three cursors, whether the loop has hit a break, and what was compared.

\* Link right without current = current_left: the cursor stays on the node
\* that was just linked.
LinkRight_StaysAtCurrent(s, current_left) ==
    [s EXCEPT !.left = [s.left EXCEPT ![s.accR] = s.current],
              !.accR = s.current]

\* Link right: right.left.set(Some(current)); right = current; current = current_left.
LinkRight(s, current_left) ==
    [s EXCEPT !.left = [s.left EXCEPT ![s.accR] = s.current],
              !.accR = s.current,
              !.current = current_left]

\* Link left without left = current: the cursor stays where it was, so the
\* next link left overwrites the slot this one wrote.
LinkLeft_KeepsCursor(s, current_right) ==
    [s EXCEPT !.right = [s.right EXCEPT ![s.accL] = s.current],
              !.current = current_right]

\* Link left: left.right.set(Some(current)); left = current; current = current_right.
LinkLeft(s, current_right) ==
    [s EXCEPT !.right = [s.right EXCEPT ![s.accL] = s.current],
              !.accL = s.current,
              !.current = current_right]

\* Rotate right at current without current.left.set(current_left.right.get()):
\* current keeps current_left as its left child while becoming its right child.
RotateRight_KeepsLeft(s, current_left) ==
    [s EXCEPT !.right = [s.right EXCEPT ![current_left] = s.current],
              !.current = current_left]

\* Rotate right at current: current.left.set(current_left.right.get());
\* current_left.right.set(Some(current)); current = current_left.
RotateRight(s, current_left) ==
    LET l1 == [s.left EXCEPT ![s.current] = s.right[current_left]]
        r1 == [s.right EXCEPT ![current_left] = s.current]
    IN [s EXCEPT !.left = l1, !.right = r1, !.current = current_left]

\* Rotate left at current: current.right.set(current_right.left.get());
\* current_right.left.set(Some(current)); current = current_right.
RotateLeft(s, current_right) ==
    LET r1 == [s.right EXCEPT ![s.current] = s.left[current_right]]
        l1 == [s.left EXCEPT ![current_right] = s.current]
    IN [s EXCEPT !.left = l1, !.right = r1, !.current = current_right]

\* The Less arm with the break taken right after the rotation, whether or
\* not the rotated-up node has a left child.
StepLess_StopsAfterRotate(s, key) ==
    LET current_left == s.left[s.current]
    IN IF current_left = None
       THEN [s EXCEPT !.brk = TRUE]
       ELSE LET s1 == [s EXCEPT !.cmps = @ \cup {current_left}]
            IN IF compare_to_node(key, current_left) = "Less"
               THEN [RotateRight(s1, current_left) EXCEPT !.brk = TRUE]
               ELSE LinkRight(s1, current_left)

\* The Less arm of the match in the loop body.
StepLess(s, key) ==
    LET current_left == s.left[s.current]
    IN IF current_left = None
       THEN [s EXCEPT !.brk = TRUE]
       ELSE LET s1 == [s EXCEPT !.cmps = @ \cup {current_left}]
            IN IF compare_to_node(key, current_left) = "Less"
               THEN LET s2 == RotateRight(s1, current_left)
                    IN IF s2.left[s2.current] = None
                       THEN [s2 EXCEPT !.brk = TRUE]
                       ELSE LinkRight(s2, s2.left[s2.current])
               ELSE LinkRight(s1, current_left)

\* The Greater arm with the break taken right after the rotation, whether or
\* not the rotated-up node has a right child.
StepGreater_StopsAfterRotate(s, key) ==
    LET current_right == s.right[s.current]
    IN IF current_right = None
       THEN [s EXCEPT !.brk = TRUE]
       ELSE LET s1 == [s EXCEPT !.cmps = @ \cup {current_right}]
            IN IF compare_to_node(key, current_right) = "Greater"
               THEN [RotateLeft(s1, current_right) EXCEPT !.brk = TRUE]
               ELSE LinkLeft(s1, current_right)

\* The Greater arm without the rotation: the right child is linked into the
\* left accumulator whatever the key compares to it.
StepGreater_NoRotate(s, key) ==
    LET current_right == s.right[s.current]
    IN IF current_right = None
       THEN [s EXCEPT !.brk = TRUE]
       ELSE LinkLeft([s EXCEPT !.cmps = @ \cup {current_right}], current_right)

\* The Greater arm of the match in the loop body.
StepGreater(s, key) ==
    LET current_right == s.right[s.current]
    IN IF current_right = None
       THEN [s EXCEPT !.brk = TRUE]
       ELSE LET s1 == [s EXCEPT !.cmps = @ \cup {current_right}]
            IN IF compare_to_node(key, current_right) = "Greater"
               THEN LET s2 == RotateLeft(s1, current_right)
                    IN IF s2.right[s2.current] = None
                       THEN [s2 EXCEPT !.brk = TRUE]
                       ELSE LinkLeft(s2, s2.right[s2.current])
               ELSE LinkLeft(s1, current_right)

\* One iteration of `loop { match key.compare_to_node(current) { .. } }`.
SplayStep(s, key) ==
    LET ord == compare_to_node(key, s.current)
        s0 == [s EXCEPT !.cmps = @ \cup {s.current}, !.iters = @ + 1]
    IN CASE ord = "Less" -> StepLess(s0, key)
         [] ord = "Greater" -> StepGreater(s0, key)
         [] OTHER -> [s0 EXCEPT !.brk = TRUE]

RECURSIVE SplayLoop(_, _)
\* The loop, run until it breaks.
SplayLoop(s, key) ==
    LET t == SplayStep(s, key)
    IN IF t.brk THEN t ELSE SplayLoop(t, key)

\* Assemble with the two accumulated chains adopted on the wrong sides.
Assemble_Swapped(s) ==
    LET r1 == [s.right EXCEPT ![s.accL] = s.left[s.current]]
        l1 == [s.left EXCEPT ![s.accR] = r1[s.current]]
        l2 == [l1 EXCEPT ![s.current] = l1[null]]
        r2 == [r1 EXCEPT ![s.current] = r1[null]]
    IN [s EXCEPT !.left = l2, !.right = r2]

\* Assemble that hands current the accumulator cursors themselves instead of
\* the chains hanging off the sentinel: a side nothing was linked into gets
\* the sentinel.
Assemble_AdoptsCursors(s) ==
    LET r1 == [s.right EXCEPT ![s.accL] = s.left[s.current]]
        l1 == [s.left EXCEPT ![s.accR] = r1[s.current]]
        l2 == [l1 EXCEPT ![s.current] = IF s.accL = null THEN null ELSE r1[null]]
        r2 == [r1 EXCEPT ![s.current] = IF s.accR = null THEN null ELSE l2[null]]
    IN [s EXCEPT !.left = l2, !.right = r2]

\* Assemble: the four slot writes after the loop, in program order.
Assemble(s) ==
    LET r1 == [s.right EXCEPT ![s.accL] = s.left[s.current]]
        l1 == [s.left EXCEPT ![s.accR] = r1[s.current]]
        l2 == [l1 EXCEPT ![s.current] = r1[null]]
        r2 == [r1 EXCEPT ![s.current] = l2[null]]
    IN [s EXCEPT !.left = l2, !.right = r2]

\* The locals of splay on entry: null, left = &null, right = &null.
SplayStart(h, current) ==
    [left |-> [n \in DOMAIN h.left \cup {null} |-> IF n = null THEN None ELSE h.left[n]],
     right |-> [n \in DOMAIN h.right \cup {null} |-> IF n = null THEN None ELSE h.right[n]],
     current |-> current, accL |-> null, accR |-> null,
     brk |-> FALSE, cmps |-> {}, iters |-> 0]

\* The tail of splay: self.root = Some(current); current.
SplayReturn(s) ==
    [root |-> s.current,
     left |-> [n \in DOMAIN s.left \ {null} |-> s.left[n]],
     right |-> [n \in DOMAIN s.right \ {null} |-> s.right[n]],
     node |-> s.current, cmps |-> s.cmps, iters |-> s.iters]

\* splay without the final write of the splayed node into self.root: the
\* root stays what it was before the call.
splay_KeepsRoot(h, current, key) ==
    [SplayReturn(Assemble(SplayLoop(SplayStart(h, current), key)))
        EXCEPT !.root = h.root]

\* splay(current, key): the slots after it, the new root (also its return
\* value), the nodes the comparator was called on and the iterations run.
splay(h, current, key) ==
    SplayReturn(Assemble(SplayLoop(SplayStart(h, current), key)))

----
\* The engine's operations.  Each takes the tree and slots h and yields them
\* after the call, with the returned node (ret) or boolean (retb), whether the
\* call panicked, and the nodes the comparator was called on.

\* Whether debug_assert! is compiled in.
DebugAssertions == TRUE

Result(h, r, b, c) ==
    [root |-> h.root, left |-> h.left, right |-> h.right,
     ret |-> r, retb |-> b, panic |-> FALSE, cmps |-> c]

\* SplayTree::is_empty.
is_empty(h) == h.root = None

\* SplayTree::root.
tree_root(h) == h.root

\* The rest of find once the splay has returned s, without the comparison of
\* the splayed root to the key.
FindSplayed_NoEqualCheck(s, key) ==
    Result(s, s.node, FALSE, s.cmps)

\* The rest of find once the splay has returned s.
FindSplayed(s, key) ==
    IF compare_to_node(key, s.node) = "Equal"
    THEN Result(s, s.node, FALSE, s.cmps \cup {s.node})
    ELSE Result(s, None, FALSE, s.cmps \cup {s.node})

\* find that, given no root, hands the comparator the splay's sentinel node
\* before it reports that nothing was found.
find_ComparesSentinel(h, key) ==
    IF h.root = None
    THEN Result(h, None, FALSE, {null})
    ELSE FindSplayed(splay(h, h.root, key), key)

\* SplayTree::find.
find(h, key) ==
    IF h.root = None
    THEN Result(h, None, FALSE, {})
    ELSE FindSplayed(splay(h, h.root, key), key)

\* The Less arm of insert that links root as node's right child but leaves
\* root's left subtree under root.
InsertLess_KeepsLeft(s, node) ==
    [root |-> node, left |-> s.left, right |-> [s.right EXCEPT ![node] = s.node]]

\* The Less arm of insert: node takes root's left subtree and root as its right.
InsertLess(s, node) ==
    LET l1 == [s.left EXCEPT ![node] = s.left[s.node]]
        r1 == [s.right EXCEPT ![node] = s.node]
        l2 == [l1 EXCEPT ![s.node] = None]
    IN [root |-> node, left |-> l2, right |-> r1]

\* The Greater arm of insert that clears root's right subtree without handing
\* it to node first.
InsertGreater_DropsRight(s, node) ==
    LET l1 == [s.left EXCEPT ![node] = s.node]
        r2 == [s.right EXCEPT ![s.node] = None]
    IN [root |-> node, left |-> l1, right |-> r2]

\* The Greater arm of insert without root.right.set(None): root and node both
\* refer to root's right subtree.
InsertGreater_SharesRight(s, node) ==
    LET r1 == [s.right EXCEPT ![node] = s.right[s.node]]
        l1 == [s.left EXCEPT ![node] = s.node]
    IN [root |-> node, left |-> l1, right |-> r1]

\* The Greater arm of insert: node takes root's right subtree and root as its left.
InsertGreater(s, node) ==
    LET r1 == [s.right EXCEPT ![node] = s.right[s.node]]
        l1 == [s.left EXCEPT ![node] = s.node]
        r2 == [r1 EXCEPT ![s.node] = None]
    IN [root |-> node, left |-> l1, right |-> r2]

\* The match of insert with the Equal arm missing: an Equal root is treated
\* like a Greater one and node is linked anyway.
InsertSplayed_NoEqualCheck(s, key, node) ==
    IF compare_to_node(key, s.node) = "Less"
    THEN Result(InsertLess(s, node), None, TRUE, s.cmps \cup {s.node})
    ELSE Result(InsertGreater(s, node), None, TRUE, s.cmps \cup {s.node})

\* The match of insert with an Equal arm that puts node in the root's place
\* and reports that nothing was inserted.
InsertSplayed_ReplacesEqual(s, key, node) ==
    CASE compare_to_node(key, s.node) = "Equal" ->
            Result([root |-> node,
                    left |-> [s.left EXCEPT ![node] = s.left[s.node], ![s.node] = None],
                    right |-> [s.right EXCEPT ![node] = s.right[s.node], ![s.node] = None]],
                   None, FALSE, s.cmps \cup {s.node})
      [] compare_to_node(key, s.node) = "Less" ->
            Result(InsertLess(s, node), None, TRUE, s.cmps \cup {s.node})
      [] OTHER ->
            Result(InsertGreater(s, node), None, TRUE, s.cmps \cup {s.node})

\* The match of insert with node.left.set(root.left.get()) done ahead of the
\* match, so that a refused node keeps a reference into the tree.
InsertSplayed_LinksBeforeMatch(s, key, node) ==
    CASE compare_to_node(key, s.node) = "Equal" ->
            Result([root |-> s.root,
                    left |-> [s.left EXCEPT ![node] = s.left[s.node]],
                    right |-> s.right],
                   None, FALSE, s.cmps \cup {s.node})
      [] compare_to_node(key, s.node) = "Less" ->
            Result(InsertLess(s, node), None, TRUE, s.cmps \cup {s.node})
      [] OTHER ->
            Result(InsertGreater(s, node), None, TRUE, s.cmps \cup {s.node})

\* The match of insert that also hands the comparator the node being
\* inserted.
InsertSplayed_ComparesNode(s, key, node) ==
    CASE compare_to_node(key, s.node) = "Equal" ->
            Result(s, None, FALSE, s.cmps \cup {s.node, node})
      [] compare_to_node(key, s.node) = "Less" ->
            Result(InsertLess(s, node), None, TRUE, s.cmps \cup {s.node, node})
      [] OTHER ->
            Result(InsertGreater(s, node), None, TRUE, s.cmps \cup {s.node, node})

\* The rest of insert once the splay has returned s: the match on
\* key.compare_to_node(root).
InsertSplayed(s, key, node) ==
    CASE compare_to_node(key, s.node) = "Equal" ->
            Result(s, None, FALSE, s.cmps \cup {s.node})
      [] compare_to_node(key, s.node) = "Less" ->
            Result(InsertLess(s, node), None, TRUE, s.cmps \cup {s.node})
      [] OTHER ->
            Result(InsertGreater(s, node), None, TRUE, s.cmps \cup {s.node})

\* insert without the debug assertion on node's slots.
insert_NoAssert(h, key, node) ==
    IF h.root = None
    THEN Result([h EXCEPT !.root = node], None, TRUE, {})
    ELSE InsertSplayed(splay(h, h.root, key), key, node)

\* insert without the splay: the match is made on whatever node is the root.
insert_NoSplay(h, key, node) ==
    IF DebugAssertions /\ ~(h.left[node] = None /\ h.right[node] = None)
    THEN [Result(h, None, FALSE, {}) EXCEPT !.panic = TRUE]
    ELSE IF h.root = None
    THEN Result([h EXCEPT !.root = node], None, TRUE, {})
    ELSE InsertSplayed([root |-> h.root, left |-> h.left, right |-> h.right,
                        node |-> h.root, cmps |-> {}, iters |-> 0], key, node)

\* SplayTree::insert.
insert(h, key, node) ==
    IF DebugAssertions /\ ~(h.left[node] = None /\ h.right[node] = None)
    THEN [Result(h, None, FALSE, {}) EXCEPT !.panic = TRUE]
    ELSE IF h.root = None
    THEN Result([h EXCEPT !.root = node], None, TRUE, {})
    ELSE InsertSplayed(splay(h, h.root, key), key, node)

\* The release build's insert with node's slots emptied on entry.
insert_release_ClearsNode(h, key, node) ==
    LET g == [h EXCEPT !.left = [h.left EXCEPT ![node] = None],
                       !.right = [h.right EXCEPT ![node] = None]]
    IN IF g.root = None
       THEN Result([g EXCEPT !.root = node], None, TRUE, {})
       ELSE InsertSplayed(splay(g, g.root, key), key, node)

\* SplayTree::insert as a build without debug assertions compiles it:
\* debug_assert! expands to nothing.
insert_release(h, key, node) ==
    IF h.root = None
    THEN Result([h EXCEPT !.root = node], None, TRUE, {})
    ELSE InsertSplayed(splay(h, h.root, key), key, node)

\* Some(splay(..)): the node the splay returned.
Splayed(s) ==
    Result(s, s.node, FALSE, s.cmps)

\* min that returns the current root without splaying.
min_ReturnsRoot(h) ==
    Result(h, h.root, FALSE, {})

\* SplayTree::min.
min(h) ==
    IF h.root = None
    THEN Result(h, None, FALSE, {})
    ELSE Splayed(splay(h, h.root, MinNode))

\* SplayTree::max.
max(h) ==
    IF h.root = None
    THEN Result(h, None, FALSE, {})
    ELSE Splayed(splay(h, h.root, MaxNode))

\* The tail of pop_root that hands back the node the tree is left rooted at
\* instead of the root it took.
PopRootReturn_ReturnsNewRoot(j, old_root, c) ==
    [root |-> j.root,
     left |-> [j.left EXCEPT ![old_root] = None],
     right |-> [j.right EXCEPT ![old_root] = None],
     ret |-> j.root, retb |-> FALSE, panic |-> FALSE, cmps |-> c]

\* The tail of pop_root without the two writes that clear old_root's slots.
PopRootReturn_KeepsSlots(j, old_root, c) ==
    [root |-> j.root, left |-> j.left, right |-> j.right,
     ret |-> old_root, retb |-> FALSE, panic |-> FALSE, cmps |-> c]

\* The tail of pop_root without old_root.right.set(None).
PopRootReturn_KeepsRight(j, old_root, c) ==
    [root |-> j.root,
     left |-> [j.left EXCEPT ![old_root] = None],
     right |-> j.right,
     ret |-> old_root, retb |-> FALSE, panic |-> FALSE, cmps |-> c]

\* The tail of pop_root: old_root.left.set(None); old_root.right.set(None);
\* Some(old_root).
PopRootReturn(j, old_root, c) ==
    [root |-> j.root,
     left |-> [j.left EXCEPT ![old_root] = None],
     right |-> [j.right EXCEPT ![old_root] = None],
     ret |-> old_root, retb |-> FALSE, panic |-> FALSE, cmps |-> c]

\* The Some arm of pop_root without the write of old_root_right into the
\* splayed left subtree's right slot.
PopRootJoin_DropsRight(s, old_root, old_root_right) ==
    PopRootReturn([root |-> s.root, left |-> s.left, right |-> s.right],
                  old_root, s.cmps)

\* The Some arm of pop_root: the splayed left subtree s takes old_root_right.
PopRootJoin(s, old_root, old_root_right) ==
    PopRootReturn([root |-> s.root, left |-> s.left,
                   right |-> [s.right EXCEPT ![s.node] = old_root_right]],
                  old_root, s.cmps)

\* pop_root that splays the old root's left subtree for its minimum instead
\* of its maximum before giving it the old root's right subtree.
pop_root_SplaysMin(h) ==
    IF h.root = None
    THEN Result(h, None, FALSE, {})
    ELSE IF h.left[h.root] # None
    THEN PopRootJoin(splay([h EXCEPT !.root = None], h.left[h.root], MinNode),
                     h.root, h.right[h.root])
    ELSE PopRootReturn([h EXCEPT !.root = h.right[h.root]], h.root, {})

\* SplayTree::pop_root.
pop_root(h) ==
    IF h.root = None
    THEN Result(h, None, FALSE, {})
    ELSE IF h.left[h.root] # None
    THEN PopRootJoin(splay([h EXCEPT !.root = None], h.left[h.root], MaxNode),
                     h.root, h.right[h.root])
    ELSE PopRootReturn([h EXCEPT !.root = h.right[h.root]], h.root, {})

\* pop_min that pops the root without splaying the minimum to it first.
pop_min_SkipsMin(h) ==
    pop_root(h)

\* `self.pop_root()` after `self.min()?` or `self.max()?` returned m.
PopSplayed(m) ==
    IF m.ret = None
    THEN Result(m, None, FALSE, m.cmps)
    ELSE [pop_root(m) EXCEPT !.cmps = @ \cup m.cmps]

\* SplayTree::pop_min.
pop_min(h) ==
    PopSplayed(min(h))

\* SplayTree::pop_max.
pop_max(h) ==
    PopSplayed(max(h))

\* The rest of remove once the splay has returned s: pop the root if the key
\* compares Equal to it.
RemoveSplayed(s, key) ==
    IF s.root # None /\ compare_to_node(key, s.root) = "Equal"
    THEN [pop_root(s) EXCEPT !.cmps = @ \cup s.cmps \cup {s.root}]
    ELSE Result(s, None, FALSE, s.cmps \cup {s.root})

\* remove that pops the splayed root without comparing it to the key.
remove_NoEqualCheck(h, key) ==
    IF h.root = None
    THEN Result(h, None, FALSE, {})
    ELSE pop_root(splay(h, h.root, key))

\* SplayTree::remove.
remove(h, key) ==
    IF h.root = None
    THEN Result(h, None, FALSE, {})
    ELSE RemoveSplayed(splay(h, h.root, key), key)

RECURSIVE InOrder(_, _, _)
\* Node::walk: the nodes under n in order, left subtree first (fuel bounds the
\* depth so that the walk is defined on any slot contents).
InOrder(h, n, fuel) ==
    IF n = None \/ fuel = 0 \/ n \notin DOMAIN h.left
    THEN << >>
    ELSE InOrder(h, h.left[n], fuel - 1) \o <<n>> \o InOrder(h, h.right[n], fuel - 1)

\* SplayTree::walk with a visitor that never breaks: every node, in order.
walk(h) == InOrder(h, h.root, NumElems + 1)

\* A visitor walk is called with: it returns a control value of kind pol ("unit"
\* for (), "option" for Option<T>, "result" for Result<(), E>) that says break,
\* carrying the element, on every element whose key is k or more.  val = None
\* stands for (), for Option's None and for Ok(()).
Visitor(pol, k, elem) ==
    [kind |-> pol,
     val |-> IF pol # "unit" /\ KeyOf(elem) >= k THEN elem ELSE None]

\* WalkControl::should_break for (), Option<T> and Result<(), E>.
should_break(c) ==
    IF c.kind = "unit" THEN None ELSE c.val

\* The state a walk carries: the facade's captured `result`, the elements
\* the visitor was called on, and whether the traversal is to go on.
WalkStart ==
    [result |-> None, visited |-> << >>, go |-> TRUE]

\* The closure the facade hands to the engine that never tells it to stop.
walk_closure_NeverStops(w, pol, k, node) ==
    [result |-> should_break(Visitor(pol, k, node)),
     visited |-> Append(w.visited, node),
     go |-> TRUE]

\* The closure the facade hands to the engine:
\* result = f(elem).should_break(); result.is_none().
walk_closure(w, pol, k, node) ==
    [result |-> should_break(Visitor(pol, k, node)),
     visited |-> Append(w.visited, node),
     go |-> should_break(Visitor(pol, k, node)) = None]

RECURSIVE NodeWalk(_, _, _, _, _, _)
RECURSIVE NodeWalkRight(_, _, _, _, _, _)
\* Node::walk on n once its left subtree has been walked, leaving w: call f on
\* n unless the walk was stopped, then go on to the right subtree.
NodeWalkSelf(h, n, w, pol, k, fuel) ==
    IF w.go
    THEN NodeWalkRight(h, n, walk_closure(w, pol, k, n), pol, k, fuel)
    ELSE w

\* Node::walk on n once f has been called on it, leaving w: walk the right
\* subtree unless f said to stop.
NodeWalkRight(h, n, w, pol, k, fuel) ==
    IF w.go
    THEN NodeWalk(h, h.right[n], w, pol, k, fuel - 1)
    ELSE w

\* Node::walk with a callback that may stop it: the left subtree, the node,
\* then the right subtree, stopping as soon as the callback returns false.
NodeWalk(h, n, w, pol, k, fuel) ==
    IF n = None \/ fuel = 0 \/ n \notin DOMAIN h.left
    THEN w
    ELSE NodeWalkSelf(h, n, NodeWalk(h, h.left[n], w, pol, k, fuel - 1), pol, k, fuel)

\* SplayTree::walk of the engine: root.walk(f) if there is a root.
tree_walk(h, w, pol, k) ==
    IF h.root = None THEN w ELSE NodeWalk(h, h.root, w, pol, k, NumElems + 1)

\* SplayTree::walk of the facade: the captured result once the engine is done.
walk_with(h, pol, k) ==
    tree_walk(h, WalkStart, pol, k)

----
\* The caller: the typed facade's methods called on one tree over the arena's
\* records.  members is the caller's own account of what it put in the tree:
\* the records whose insert returned true and that no removal handed back.

\* The elements of a sequence.
Range(q) == {q[i] : i \in 1..Len(q)}

\* The state after construction: SplayTree::default() and fresh records.
InitTree ==
    /\ root = None
    /\ left = [n \in Elems |-> None]
    /\ right = [n \in Elems |-> None]
    /\ op = "new"
    /\ arg = None
    /\ ret = None
    /\ retb = FALSE
    /\ members = {}
    /\ xs = << >>
    /\ popped = << >>
    /\ panic = FALSE
    /\ visited = << >>
    /\ rootY = None
    /\ loop = Idle

\* The tree and slots a call on the tree leaves, what it returned and whether
\* it panicked; no visitor was called.
Returns(r, name, a) ==
    /\ root' = r.root
    /\ left' = r.left
    /\ right' = r.right
    /\ op' = name
    /\ arg' = a
    /\ ret' = r.ret
    /\ retb' = r.retb
    /\ panic' = r.panic
    /\ visited' = << >>
    /\ UNCHANGED <<rootY, loop>>
    /\ members' = IF name = "insert"
                  THEN (IF r.retb THEN members \cup {a} ELSE members)
                  ELSE IF name \in {"remove", "pop_root", "pop_min", "pop_max"}
                  THEN members \ {r.ret}
                  ELSE members

\* tree.insert(elem) for a record that is not in the tree.
Insert(e) ==
    /\ e \notin members
    /\ Returns(insert(Heap, Query(KeyOf(e)), e), "insert", e)
    /\ UNCHANGED <<xs, popped, phase>>

\* tree.find(&k).
Find(k) ==
    /\ Returns(find(Heap, Query(k)), "find", k)
    /\ UNCHANGED <<xs, popped, phase>>

\* tree.remove(&k).
Remove(k) ==
    /\ Returns(remove(Heap, Query(k)), "remove", k)
    /\ UNCHANGED <<xs, popped, phase>>

\* tree.min().
Min ==
    /\ Returns(min(Heap), "min", None)
    /\ UNCHANGED <<xs, popped, phase>>

\* tree.max().
Max ==
    /\ Returns(max(Heap), "max", None)
    /\ UNCHANGED <<xs, popped, phase>>

\* tree.pop_root().
PopRoot ==
    /\ Returns(pop_root(Heap), "pop_root", None)
    /\ UNCHANGED <<xs, popped, phase>>

\* tree.pop_min().
PopMin ==
    /\ Returns(pop_min(Heap), "pop_min", None)
    /\ UNCHANGED <<xs, popped, phase>>

\* tree.pop_max().
PopMax ==
    /\ Returns(pop_max(Heap), "pop_max", None)
    /\ UNCHANGED <<xs, popped, phase>>

Init ==
    /\ InitTree
    /\ phase = "calls"

Next ==
    \/ \E e \in Elems : Insert(e)
    \/ \E k \in Keys : Find(k)
    \/ \E k \in Keys : Remove(k)
    \/ Min
    \/ Max
    \/ PopRoot
    \/ PopMin
    \/ PopMax

Spec == Init /\ [][Next]_vars

----
\* The misuse tests/test.rs exercises: a record that is in the tree is handed
\* to insert again.  A panic unwinds out of insert before it has touched the
\* tree; the caller may catch it and go on.

\* tree.insert(elem) for a record that is already in the tree.
Reinsert(e) ==
    /\ e \in members
    /\ Returns(insert(Heap, Query(KeyOf(e)), e), "reinsert", e)
    /\ UNCHANGED <<xs, popped, phase>>

NextReinsert ==
    \/ Next
    \/ \E e \in Elems : Reinsert(e)

SpecReinsert == Init /\ [][NextReinsert]_vars

\* The same misuse in a build without debug assertions.  The assertion is the
\* only code of the crate that depends on the build and it writes nothing, so
\* the trees either build reaches are the trees of Next; ReinsertRelease is
\* the call as the release build runs it.
ReinsertRelease(e) ==
    /\ e \in members
    /\ Returns(insert_release(Heap, Query(KeyOf(e)), e), "reinsert_release", e)
    /\ UNCHANGED <<xs, popped, phase>>

NextRelease ==
    \/ NextReinsert
    \/ \E e \in Elems : ReinsertRelease(e)

SpecRelease == Init /\ [][NextRelease]_vars

----
\* Traversals between the calls: tree.walk(f) under each of the three
\* WalkControl policies.

\* The kinds of control value a visitor returns.
Policies == {"unit", "option", "result"}

\* What a walk under policy pol is recorded as in op.
WalkOp(pol) ==
    CASE pol = "unit" -> "walk_unit"
      [] pol = "option" -> "walk_option"
      [] OTHER -> "walk_result"

\* What a walk leaves: it takes &self and writes no slot; visited is what the
\* visitor was called on, ret the value walk returned.
WalkReturns(w, pol, k) ==
    /\ visited' = w.visited
    /\ ret' = w.result
    /\ op' = WalkOp(pol)
    /\ arg' = k
    /\ retb' = FALSE
    /\ panic' = FALSE
    /\ UNCHANGED <<root, left, right, rootY, members, xs, popped, phase, loop>>

\* tree.walk(f) for the visitor that breaks on keys of k or more.
Walk(pol, k) ==
    WalkReturns(walk_with(Heap, pol, k), pol, k)

NextWalk ==
    \/ Next
    \/ \E pol \in Policies : \E k \in Keys : Walk(pol, k)

SpecWalk == Init /\ [][NextWalk]_vars

----
\* Two indexes over the same records: the by_x and by_y trees of
\* tests/all/multiple.rs, each called through the facade with its own tag.
\* The two trees' roots are root and rootY; both trees' nodes live in left
\* and right, at the addresses their tag's binding gives them.  members holds
\* the nodes the caller has linked, and phase the tag of the tree last called.

\* The records the two indexes are built over.
MultiElems == 1..NumMulti

\* The keys the two indexes are probed with: one below and one above every
\* x and y of those records.
MultiKeys == 0..(NumMulti + 1)

\* The root field of the tag's SplayTree.
TagRoot(tag) == IF tag = "by_y" THEN rootY ELSE root

\* The tag's tree and the slots of every node, as one value.
TagHeap(tag) == [root |-> TagRoot(tag), left |-> left, right |-> right]

\* The other of the two tags.
OtherTag(tag) == IF tag = "by_y" THEN "by_x" ELSE "by_y"

\* The key the tag's ordering reads from a record.
TagKey(tag, e) == IF tag = "by_y" THEN YOf(e) ELSE XOf(e)

\* .map(|node| T::node_to_elem(node)) on what the engine returned.
map_node_to_elem(tag, n) == IF n = None THEN None ELSE node_to_elem(tag, n)

InitMulti ==
    /\ root = None
    /\ rootY = None
    /\ loop = Idle
    /\ left = [n \in Nodes |-> None]
    /\ right = [n \in Nodes |-> None]
    /\ op = "new"
    /\ arg = None
    /\ ret = None
    /\ retb = FALSE
    /\ members = {}
    /\ xs = << >>
    /\ popped = << >>
    /\ panic = FALSE
    /\ visited = << >>
    /\ phase = "trees"

\* What a call on the tag's tree leaves: that tree's root, the slots, and the
\* element the facade made of the node the engine returned.
MultiReturns(tag, r, name, a) ==
    /\ root' = IF tag = "by_x" THEN r.root ELSE root
    /\ rootY' = IF tag = "by_y" THEN r.root ELSE rootY
    /\ left' = r.left
    /\ right' = r.right
    /\ op' = name
    /\ arg' = a
    /\ phase' = tag
    /\ ret' = map_node_to_elem(tag, r.ret)
    /\ retb' = r.retb
    /\ panic' = r.panic
    /\ visited' = << >>
    /\ members' = IF name = "insert"
                  THEN (IF r.retb THEN members \cup {elem_to_node(tag, a)} ELSE members)
                  ELSE IF name \in {"remove", "pop_root", "pop_min", "pop_max"}
                  THEN members \ {r.ret}
                  ELSE members
    /\ UNCHANGED <<xs, popped, loop>>

\* tree.insert(m) on the tag's tree, for a record that is not in it.
MultiInsert(tag, e) ==
    /\ elem_to_node(tag, e) \notin members
    /\ MultiReturns(tag, insert(TagHeap(tag), TagQuery(tag, TagKey(tag, e)),
                                elem_to_node(tag, e)), "insert", e)

\* tree.find(&k) on the tag's tree.
MultiFind(tag, k) ==
    MultiReturns(tag, find(TagHeap(tag), TagQuery(tag, k)), "find", k)

\* tree.remove(&k) on the tag's tree.
MultiRemove(tag, k) ==
    MultiReturns(tag, remove(TagHeap(tag), TagQuery(tag, k)), "remove", k)

\* tree.min() on the tag's tree.
MultiMin(tag) ==
    MultiReturns(tag, min(TagHeap(tag)), "min", None)

\* tree.max() on the tag's tree.
MultiMax(tag) ==
    MultiReturns(tag, max(TagHeap(tag)), "max", None)

\* tree.pop_root() on the tag's tree.
MultiPopRoot(tag) ==
    MultiReturns(tag, pop_root(TagHeap(tag)), "pop_root", None)

\* tree.pop_min() on the tag's tree.
MultiPopMin(tag) ==
    MultiReturns(tag, pop_min(TagHeap(tag)), "pop_min", None)

\* tree.pop_max() on the tag's tree.
MultiPopMax(tag) ==
    MultiReturns(tag, pop_max(TagHeap(tag)), "pop_max", None)

NextMulti ==
    \/ \E tag \in Tags : \E e \in MultiElems : MultiInsert(tag, e)
    \/ \E tag \in Tags : \E k \in MultiKeys : MultiFind(tag, k)
    \/ \E tag \in Tags : \E k \in MultiKeys : MultiRemove(tag, k)
    \/ \E tag \in Tags : MultiMin(tag)
    \/ \E tag \in Tags : MultiMax(tag)
    \/ \E tag \in Tags : MultiPopRoot(tag)
    \/ \E tag \in Tags : MultiPopMin(tag)
    \/ \E tag \in Tags : MultiPopMax(tag)

SpecMulti == InitMulti /\ [][NextMulti]_vars

----
\* A splay followed one iteration of its loop at a time: the one a find, min
\* or max makes, or the one insert makes before it links the new node.  While
\* it runs, loop holds its locals and the slots as the loop has written them
\* so far; root, left and right are written when the call returns.

\* The comparators a splay is called with.
SplayKeys == {Query(k) : k \in Keys} \cup {MinNode, MaxNode}

\* tree.insert(elem) for a record that is not in the tree: on the empty tree
\* it returns at once, otherwise it enters splay(root, key).
SplayInsert(e) ==
    /\ loop.pc = "idle"
    /\ e \notin members
    /\ IF root = None
       THEN Insert(e)
       ELSE /\ loop' = [pc |-> "loop", key |-> Query(KeyOf(e)), node |-> e,
                        s |-> SplayStart(Heap, root)]
            /\ UNCHANGED <<root, left, right, op, arg, ret, retb, members, xs,
                           popped, phase, panic, visited, rootY>>

\* splay(root, key) is entered from find, min or max.
SplayEnter(key) ==
    /\ loop.pc = "idle"
    /\ root # None
    /\ loop' = [pc |-> "loop", key |-> key, node |-> None,
                s |-> SplayStart(Heap, root)]
    /\ UNCHANGED <<root, left, right, op, arg, ret, retb, members, xs, popped,
                   phase, panic, visited, rootY>>

\* One iteration of the loop.
SplayIter ==
    /\ loop.pc = "loop"
    /\ ~loop.s.brk
    /\ loop' = [loop EXCEPT !.s = SplayStep(loop.s, loop.key)]
    /\ UNCHANGED <<root, left, right, op, arg, ret, retb, members, xs, popped,
                   phase, panic, visited, rootY>>

\* What the splay that returned r leaves.
SplayReturns(r, key) ==
    /\ root' = r.root
    /\ left' = r.left
    /\ right' = r.right
    /\ op' = "splay"
    /\ arg' = None
    /\ ret' = r.node
    /\ retb' = FALSE
    /\ panic' = FALSE
    /\ visited' = << >>
    /\ loop' = Idle
    /\ UNCHANGED <<members, xs, popped, phase, rootY>>

\* What the insert of e leaves once its match on the splayed root has
\* yielded r.
SplayInsertReturns(r, e) ==
    /\ root' = r.root
    /\ left' = r.left
    /\ right' = r.right
    /\ op' = "insert"
    /\ arg' = e
    /\ ret' = r.ret
    /\ retb' = r.retb
    /\ panic' = r.panic
    /\ visited' = << >>
    /\ members' = IF r.retb THEN members \cup {e} ELSE members
    /\ loop' = Idle
    /\ UNCHANGED <<xs, popped, phase, rootY>>

\* The loop has hit a break: assemble, self.root = Some(current), return; an
\* insert goes on to its match on the splayed root.
SplayExit ==
    /\ loop.pc = "loop"
    /\ loop.s.brk
    /\ IF loop.node = None
       THEN SplayReturns(SplayReturn(Assemble(loop.s)), loop.key)
       ELSE SplayInsertReturns(InsertSplayed(SplayReturn(Assemble(loop.s)),
                                             loop.key, loop.node), loop.node)

NextSplay ==
    \/ \E e \in Elems : SplayInsert(e)
    \/ \E key \in SplayKeys : SplayEnter(key)
    \/ SplayIter
    \/ SplayExit

SpecSplay == Init /\ [][NextSplay]_vars

\* The splays of a tree that holds one record per key, under the scheduling
\* of a running call: the thread inside splay keeps executing, so a loop that
\* can take a step (another iteration, or the return once it has hit its
\* break) eventually takes it.
Distinct == {e \in Elems : e <= NumKeys}

NextSplayFair ==
    \/ \E e \in Distinct : SplayInsert(e)
    \/ \E key \in SplayKeys : SplayEnter(key)
    \/ SplayIter
    \/ SplayExit

SpecSplayFair ==
    Init /\ [][NextSplayFair]_vars /\ WF_vars(SplayIter \/ SplayExit)

----
\* The property tests' harness: a tree built by from_iter out of freshly
\* allocated records (xs, in insertion order), probed while it is built, and
\* then drained by pop_min or by pop_max until the pop returns None.

\* SplayTree::from_iter / extend: insert the next fresh record.
QcInsert(e) ==
    /\ phase = "build"
    /\ Len(xs) < MaxLen
    /\ e \notin Range(xs)
    /\ Returns(insert(Heap, Query(KeyOf(e)), e), "insert", e)
    /\ xs' = Append(xs, e)
    /\ UNCHANGED <<popped, phase>>

\* tree.find(&x) on the tree built so far.
QcFind(k) ==
    /\ phase = "build"
    /\ Returns(find(Heap, Query(k)), "find", k)
    /\ UNCHANGED <<xs, popped, phase>>

\* One round of `while let Some(n) = tree.pop_min()`.
QcPopMin ==
    /\ phase \in {"build", "pop_min"}
    /\ LET r == pop_min(Heap)
       IN /\ Returns(r, "pop_min", None)
          /\ popped' = IF r.ret = None THEN popped ELSE Append(popped, r.ret)
          /\ phase' = IF r.ret = None THEN "min_done" ELSE "pop_min"
    /\ UNCHANGED xs

\* One round of `while let Some(n) = tree.pop_max()`.
QcPopMax ==
    /\ phase \in {"build", "pop_max"}
    /\ LET r == pop_max(Heap)
       IN /\ Returns(r, "pop_max", None)
          /\ popped' = IF r.ret = None THEN popped ELSE Append(popped, r.ret)
          /\ phase' = IF r.ret = None THEN "max_done" ELSE "pop_max"
    /\ UNCHANGED xs

InitQc ==
    /\ InitTree
    /\ phase = "build"

NextQc ==
    \/ \E e \in Elems : QcInsert(e)
    \/ \E k \in Keys : QcFind(k)
    \/ QcPopMin
    \/ QcPopMax

SpecQc == InitQc /\ [][NextQc]_vars

----
\* What a walk observes.

\* The records the walk visits, in order.
Walked == walk(Heap)

\* The records in the tree.
Content == Range(Walked)

\* The keys of a sequence of records.
KeysOf(q) == [i \in 1..Len(q) |-> KeyOf(q[i])]

\* A sequence of keys never goes down / never goes up.
NonDecreasing(q) == \A i \in 1..(Len(q) - 1) : q[i] <= q[i + 1]
NonIncreasing(q) == \A i \in 1..(Len(q) - 1) : q[i] >= q[i + 1]

----
\* C1: on a tree built by inserting xs into an empty tree, find(k) returns an
\* element iff some inserted record's key equals k, and the element returned
\* compares Equal to k.
C1_FindIffInserted ==
    op = "find" =>
        /\ (ret # None) <=> (\E i \in 1..Len(xs) : KeyOf(xs[i]) = arg)
        /\ ret # None => (ret \in Range(xs) /\ cmp(arg, KeyOf(ret)) = "Equal")

\* A hit in a tree of three, built from a sequence that repeats a key.
C1_Witness ==
    /\ op = "find"
    /\ ret # None
    /\ Cardinality(Content) >= 3
    /\ \E i, j \in 1..Len(xs) : i # j /\ KeyOf(xs[i]) = KeyOf(xs[j])

\* C2: after any sequence of calls the in-order walk is non-decreasing, and
\* every node's left subtree holds no greater key, its right no smaller key.
C2_InOrderSorted ==
    /\ NonDecreasing(KeysOf(Walked))
    /\ \A n \in Content :
          /\ \A m \in Range(InOrder(Heap, left[n], NumElems)) : KeyOf(m) <= KeyOf(n)
          /\ \A m \in Range(InOrder(Heap, right[n], NumElems)) : KeyOf(m) >= KeyOf(n)

\* A tree of four after a removal that had to join two subtrees.
C2_Witness ==
    /\ op \in {"remove", "pop_root", "pop_min", "pop_max"}
    /\ ret # None
    /\ Cardinality(Content) >= 3
    /\ left[root] # None
    /\ right[root] # None

\* C3: insert(elem) returns true iff the tree held no element comparing Equal
\* to elem before the call, and after it (true or false) a find for elem's key
\* returns an element with that key.
C3_InsertReturn ==
    [][op' = "insert" =>
          /\ retb' <=> ~(\E m \in Content : KeyOf(m) = KeyOf(arg'))
          /\ LET f == find(Heap', Query(KeyOf(arg')))
             IN f.ret # None /\ KeyOf(f.ret) = KeyOf(arg')]_vars

\* An insert that returned true into a tree that already held three records.
C3_Witness ==
    /\ op = "insert"
    /\ retb
    /\ root = arg
    /\ Cardinality(Content) >= 4

\* C4: inserting an element whose key compares Equal to one already in the
\* tree returns false; the walk visits the same records as before, the extant
\* element is still in the tree and the new one is not.
C4_DuplicateRefused ==
    [][(op' = "insert" /\ \E m \in Content : KeyOf(m) = KeyOf(arg')) =>
          /\ retb' = FALSE
          /\ Content' = Content
          /\ \A m \in Content : KeyOf(m) = KeyOf(arg') => m \in Content'
          /\ arg' \notin Content']_vars

\* A refused insert: the tree holds another record with the argument's key.
C4_Witness ==
    /\ op = "insert"
    /\ ~retb
    /\ arg \notin Content
    /\ \E m \in Content : m # arg /\ KeyOf(m) = KeyOf(arg)
    /\ Cardinality(Content) >= 3

\* C5: remove(k) on a tree holding an element comparing Equal to k returns
\* that element, a following find(k) returns empty, and every other element
\* is still in the tree.
C5_RemovePresent ==
    [][(op' = "remove" /\ \E m \in Content : KeyOf(m) = arg') =>
          /\ ret' \in Content
          /\ KeyOf(ret') = arg'
          /\ find(Heap', Query(arg')).ret = None
          /\ Content' = Content \ {ret'}]_vars

\* A removal that returned a record and left at least three behind, on both
\* sides of the removed key.
C5_Witness ==
    /\ op = "remove"
    /\ ret # None
    /\ Cardinality(Content) >= 3
    /\ \E m \in Content : KeyOf(m) < arg
    /\ \E m \in Content : KeyOf(m) > arg

\* C6: remove(k) on a tree holding no element comparing Equal to k returns
\* empty and leaves the walk as it was: the same records in the same order.
C6_RemoveAbsent ==
    [][(op' = "remove" /\ ~(\E m \in Content : KeyOf(m) = arg')) =>
          /\ ret' = None
          /\ Walked' = Walked]_vars

\* A removal that missed, with the key strictly between keys of the tree.
C6_Witness ==
    /\ op = "remove"
    /\ ret = None
    /\ Cardinality(Content) >= 3
    /\ \E m \in Content : KeyOf(m) < arg
    /\ \E m \in Content : KeyOf(m) > arg

\* C7: min() on a non-empty tree returns the element with the smallest key of
\* the tree, which is the root when min() returns; on an empty tree it returns
\* empty.
C7_MinIsSmallest ==
    [][op' = "min" =>
          IF Content = {}
          THEN ret' = None
          ELSE /\ ret' \in Content
               /\ \A m \in Content : KeyOf(ret') <= KeyOf(m)
               /\ root' = ret']_vars

\* min() returned a record of a tree of four.
C7_Witness ==
    /\ op = "min"
    /\ ret # None
    /\ Cardinality(Content) >= 4

\* C8: max() on a non-empty tree returns the element with the largest key of
\* the tree, which is the root when max() returns; on an empty tree it returns
\* empty.
C8_MaxIsLargest ==
    [][op' = "max" =>
          IF Content = {}
          THEN ret' = None
          ELSE /\ ret' \in Content
               /\ \A m \in Content : KeyOf(ret') >= KeyOf(m)
               /\ root' = ret']_vars

\* max() returned a record of a tree of four.
C8_Witness ==
    /\ op = "max"
    /\ ret # None
    /\ Cardinality(Content) >= 4

\* How many times each key occurs in a sequence of records.
KeyBag(q) ==
    [k \in Range(KeysOf(q)) |-> Cardinality({i \in 1..Len(q) : KeyOf(q[i]) = k})]

\* The first record of a sequence with each key: those insert accepts.
FirstOfKey(q) == {q[i] : i \in {j \in 1..Len(q) : \A h \in 1..(j - 1) : KeyOf(q[h]) # KeyOf(q[j])}}

\* C9 as stated: draining the tree built from xs with pop_min yields a
\* non-decreasing sequence of keys that is exactly the multiset of keys of xs.
C9_Original ==
    phase = "min_done" =>
        /\ NonDecreasing(KeysOf(popped))
        /\ KeyBag(popped) = KeyBag(xs)

\* C9: draining the tree built from xs with pop_min yields a non-decreasing
\* sequence of keys that is exactly the set of distinct keys of xs, each once:
\* the records popped are the first record inserted with each key.
C9_PopMinDrains ==
    phase = "min_done" =>
        /\ NonDecreasing(KeysOf(popped))
        /\ Range(popped) = FirstOfKey(xs)
        /\ Len(popped) = Cardinality(Range(KeysOf(xs)))
        /\ root = None

\* A drain of three records out of a tree built from a sequence with a
\* repeated key.
C9_Witness ==
    /\ phase = "min_done"
    /\ Len(popped) >= 3
    /\ Len(xs) > Len(popped)

\* C10 as stated: draining the tree built from xs with pop_max yields a
\* non-increasing sequence of keys that is exactly the multiset of keys of xs.
C10_Original ==
    phase = "max_done" =>
        /\ NonIncreasing(KeysOf(popped))
        /\ KeyBag(popped) = KeyBag(xs)

\* C10: draining the tree built from xs with pop_max yields a non-increasing
\* sequence of keys that is exactly the set of distinct keys of xs, each once:
\* the records popped are the first record inserted with each key.
C10_PopMaxDrains ==
    phase = "max_done" =>
        /\ NonIncreasing(KeysOf(popped))
        /\ Range(popped) = FirstOfKey(xs)
        /\ Len(popped) = Cardinality(Range(KeysOf(xs)))
        /\ root = None

\* A drain of three records out of a tree built from a sequence with a
\* repeated key.
C10_Witness ==
    /\ phase = "max_done"
    /\ Len(popped) >= 3
    /\ Len(xs) > Len(popped)

\* C11: pop_root() returns exactly the element root() reported immediately
\* before the call, and returns empty when root() reported empty.
C11_PopRootReturnsRoot ==
    [][op' = "pop_root" => ret' = root]_vars

\* pop_root has handed back the root of a tree that keeps two or more elements.
C11_Witness ==
    /\ op = "pop_root"
    /\ ret # None
    /\ Cardinality(Content) >= 2

\* C13: whenever find(k) returns an element, that element is the tree's root
\* immediately after the call.
C13_FoundIsRoot ==
    (op = "find" /\ ret # None) => (root = ret /\ KeyOf(ret) = arg)

\* find has returned an element of a tree of three or more that has a subtree
\* on either side.
C13_Witness ==
    /\ op = "find"
    /\ ret # None
    /\ Cardinality(Content) >= 3
    /\ left[ret] # None
    /\ right[ret] # None

\* C14: whenever insert returns true, the inserted element is the root after
\* the call; if the tree was non-empty, the root the splay on the new key
\* produced is the new root's right child when the key compared Less to it,
\* with that root's former left subtree now the new root's left subtree, and
\* its left child when the key compared Greater, mirrored.  No other slot
\* differs from what the splay left.
C14_InsertedIsRoot ==
    [][(op' = "insert" /\ retb') =>
          /\ root' = arg'
          /\ root = None => (left'[arg'] = None /\ right'[arg'] = None)
          /\ root # None =>
               LET s == splay(Heap, root, Query(KeyOf(arg')))
                   o == s.node
               IN /\ \A n \in Elems \ {arg', o} :
                        left'[n] = s.left[n] /\ right'[n] = s.right[n]
                  /\ IF KeyOf(arg') < KeyOf(o)
                     THEN /\ right'[arg'] = o
                          /\ left'[arg'] = s.left[o]
                          /\ left'[o] = None
                          /\ right'[o] = s.right[o]
                          /\ InOrder(Heap', left'[arg'], NumElems)
                               = InOrder(s, s.left[o], NumElems)
                     ELSE /\ left'[arg'] = o
                          /\ right'[arg'] = s.right[o]
                          /\ right'[o] = None
                          /\ left'[o] = s.left[o]
                          /\ InOrder(Heap', right'[arg'], NumElems)
                               = InOrder(s, s.right[o], NumElems)]_vars

\* An insert returned true and the new root has a subtree on either side: the
\* former root on one, a subtree taken from it on the other.
C14_Witness ==
    /\ op = "insert"
    /\ retb
    /\ root = arg
    /\ left[root] # None
    /\ right[root] # None
    /\ Cardinality(Content) >= 4

\* C15 as stated: with debug assertions enabled, calling insert with an
\* element that is already inserted in the tree panics.
C15_Original ==
    [][op' = "reinsert" => panic']_vars

\* C15: with debug assertions enabled, insert of an element that is already in
\* the tree panics exactly when one of the element's slots is non-empty, and
\* the panic leaves the tree untouched; an element with both slots empty (a
\* leaf, or the only element) passes the assertion, is splayed to the root as
\* the Equal match of its own key, and insert returns false with the tree's
\* content unchanged.
C15_ReinsertPanicsIffLinkedBelow ==
    [][op' = "reinsert" =>
          /\ DebugAssertions
          /\ panic' <=> (left[arg'] # None \/ right[arg'] # None)
          /\ panic' => (root' = root /\ left' = left /\ right' = right)
          /\ ~panic' => /\ retb' = FALSE
                        /\ root' = arg'
                        /\ walk(Heap') = Walked]_vars

\* A record with a child in a tree of three or more was inserted again, and
\* the call panicked.
C15_Witness ==
    /\ op = "reinsert"
    /\ panic
    /\ arg \in Content
    /\ Cardinality(Content) >= 3

\* C16: every element returned by remove, pop_root, pop_min or pop_max has
\* both its left and right slots empty when it is returned, and is no longer
\* reachable from the root: it is not in the walk, and no node's slot nor the
\* root refers to it.
C16_ReturnedIsUnlinked ==
    (op \in {"remove", "pop_root", "pop_min", "pop_max"} /\ ret # None) =>
        /\ left[ret] = None
        /\ right[ret] = None
        /\ ret \notin Content
        /\ root # ret
        /\ \A n \in Elems : left[n] # ret /\ right[n] # ret

\* A removal has returned an element and three or more stay in the tree, the
\* root with a subtree on either side.
C16_Witness ==
    /\ op \in {"remove", "pop_root", "pop_min", "pop_max"}
    /\ ret # None
    /\ Cardinality(Content) >= 3
    /\ left[root] # None
    /\ right[root] # None

\* C17 as stated: when insert refuses a duplicate key, the root and the
\* left/right slots of every node are as they were before the insert call, and
\* the rejected node has both slots empty and is referenced by no node.
C17_Original ==
    [][(op' = "insert" /\ ~retb') =>
          /\ root' = root
          /\ left' = left
          /\ right' = right
          /\ left'[arg'] = None /\ right'[arg'] = None
          /\ \A n \in Elems : left'[n] # arg' /\ right'[n] # arg']_vars

\* C17: when insert refuses a duplicate key, the tree holds the same elements
\* in the same order as before the call, but reshaped by the splay that found
\* the duplicate: the root and every slot are what the splay on the key left,
\* with the extant element of that key at the root.  The rejected node still
\* has both slots empty and is referenced by no node and not by the root.
C17_RefusedInsertOnlySplays ==
    [][(op' = "insert" /\ ~retb') =>
          /\ root # None
          /\ walk(Heap') = Walked
          /\ root' = splay(Heap, root, Query(KeyOf(arg'))).root
          /\ left' = splay(Heap, root, Query(KeyOf(arg'))).left
          /\ right' = splay(Heap, root, Query(KeyOf(arg'))).right
          /\ root' # arg'
          /\ KeyOf(root') = KeyOf(arg')
          /\ left'[arg'] = None /\ right'[arg'] = None
          /\ \A n \in Elems : left'[n] # arg' /\ right'[n] # arg']_vars

\* An insert was refused and the extant element of its key is the root of a
\* tree of three or more, with a subtree on either side.
C17_Witness ==
    /\ op = "insert"
    /\ ~retb
    /\ arg \notin Content
    /\ KeyOf(root) = KeyOf(arg)
    /\ left[root] # None
    /\ right[root] # None
    /\ Cardinality(Content) >= 3

\* C18: walk calls the visitor on the tree's elements in ascending key order;
\* the first time the visitor signals a break walk stops, the visitor is not
\* called on any later element, and walk returns Some of that value; if the
\* visitor never breaks (always the case for ()), every element is visited
\* exactly once and walk returns None.  walk does not change the tree.
C18_WalkVisitsInOrder ==
    [][op' \in {"walk_unit", "walk_option", "walk_result"} =>
          /\ root' = root /\ left' = left /\ right' = right
          /\ \A i, j \in 1..Len(visited') :
                i < j => KeyOf(visited'[i]) < KeyOf(visited'[j])
          /\ IF op' = "walk_unit" \/ \A e \in members : KeyOf(e) < arg'
             THEN /\ ret' = None
                  /\ Range(visited') = members
             ELSE /\ ret' \in members
                  /\ KeyOf(ret') >= arg'
                  /\ \A e \in members : KeyOf(e) >= arg' => KeyOf(ret') <= KeyOf(e)
                  /\ visited'[Len(visited')] = ret'
                  /\ Range(visited') = {e \in members : KeyOf(e) <= KeyOf(ret')}]_vars

\* A walk over four or more elements stopped at the visitor's break on its
\* third call or later, with elements left that it did not visit.
C18_Witness ==
    /\ op \in {"walk_option", "walk_result"}
    /\ ret # None
    /\ Len(visited) >= 3
    /\ Cardinality(Content) > Len(visited)

\* The engine's result for the facade's call `name` with argument a on the
\* tree as it is, the nodes it hands to the comparator among its fields.
CallOf(name, a) ==
    CASE name = "find" -> find(Heap, Query(a))
      [] name = "remove" -> remove(Heap, Query(a))
      [] name = "min" -> min(Heap)
      [] name = "max" -> max(Heap)
      [] name = "pop_root" -> pop_root(Heap)
      [] name = "pop_min" -> pop_min(Heap)
      [] OTHER -> pop_max(Heap)

\* C19: on an empty tree, find, remove, min, max, pop_root, pop_min and
\* pop_max each return empty, make no comparator call, and leave the tree
\* empty with every slot as it was; root() is empty and is_empty() is true.
C19_EmptyTreeCalls ==
    [][(is_empty(Heap)
          /\ op' \in {"find", "remove", "min", "max", "pop_root", "pop_min", "pop_max"}) =>
          /\ tree_root(Heap) = None
          /\ ret' = None
          /\ CallOf(op', arg').cmps = {}
          /\ ~panic'
          /\ is_empty(Heap')
          /\ tree_root(Heap') = None
          /\ left' = left /\ right' = right]_vars

\* pop_max has been called on the empty tree and returned empty: it returns
\* empty on no other tree.
C19_Witness ==
    /\ op = "pop_max"
    /\ ret = None
    /\ is_empty(Heap)
    /\ members = {}

\* The nodes S, and those a left or right slot of a node of S refers to.
LinkStep(S) ==
    S \cup (({left[n] : n \in S} \cup {right[n] : n \in S}) \ {None})

RECURSIVE LinkClosure(_, _)
\* S closed under LinkStep (n steps suffice for n nodes).
LinkClosure(S, n) ==
    IF n = 0 THEN S ELSE LinkClosure(LinkStep(S), n - 1)

\* The linked nodes: those reachable from the root through the slots.
Linked ==
    IF root = None THEN {} ELSE LinkClosure({root}, NumElems)

\* The slots of linked nodes that refer to n.
ParentSlots(n) ==
    {<<p, "left">> : p \in {q \in Linked : left[q] = n}}
       \cup {<<p, "right">> : p \in {q \in Linked : right[q] = n}}

\* C20: in every state between operations the linked nodes form a valid
\* binary tree: no cycles, and every linked node is reachable from the root
\* along exactly one path.  No slot of a linked node refers to the root, each
\* other linked node is referred to by exactly one slot of a linked node, and
\* the in-order walk meets every linked node once.
C20_ValidBinaryTree ==
    /\ \A n \in Linked :
          Cardinality(ParentSlots(n)) = (IF n = root THEN 0 ELSE 1)
    /\ Len(Walked) = Cardinality(Linked)
    /\ Content = Linked
    /\ Linked = members

\* A tree of five or more elements that is neither a single left chain nor a
\* single right chain: some node has two children.
C20_Witness ==
    /\ Cardinality(Linked) >= 5
    /\ \E n \in Linked : left[n] # None /\ right[n] # None
    /\ \E n \in Linked : n # root /\ left[n] # None
    /\ \E n \in Linked : n # root /\ right[n] # None

\* C12: for records that embed one Link Node per tag (by_x and by_y), any
\* insert, remove, find, min, max or pop on one tag's tree leaves every
\* record's slots for the other tag and the other tree's root unchanged, so
\* that queries on the other tree are not altered: its in-order walk is what
\* it was, and find by the other tag's key of every record in it still
\* returns that record.
C12_OtherTagUntouched ==
    [][\A tag \in Tags :
          phase' = tag =>
             /\ TagRoot(OtherTag(tag))' = TagRoot(OtherTag(tag))
             /\ \A e \in Elems :
                   /\ left'[elem_to_node(OtherTag(tag), e)]
                        = left[elem_to_node(OtherTag(tag), e)]
                   /\ right'[elem_to_node(OtherTag(tag), e)]
                        = right[elem_to_node(OtherTag(tag), e)]
             /\ walk(TagHeap(OtherTag(tag)))' = walk(TagHeap(OtherTag(tag)))
             /\ \A n \in Range(walk(TagHeap(OtherTag(tag)))) :
                   find(TagHeap(OtherTag(tag))',
                        TagQuery(OtherTag(tag),
                                 TagKey(OtherTag(tag), node_to_elem(OtherTag(tag), n)))).ret
                     = n]_vars

\* A record has been removed from the by_x tree while it stays in the by_y
\* tree, below that tree's root, where find by its y still returns it.
C12_Witness ==
    /\ phase = "by_x"
    /\ op = "remove"
    /\ ret # None
    /\ elem_to_node("by_x", ret) \notin members
    /\ elem_to_node("by_y", ret) \in members
    /\ Len(walk(TagHeap("by_y"))) >= 2
    /\ rootY # elem_to_node("by_y", ret)
    /\ find(TagHeap("by_y"), TagQuery("by_y", YOf(ret))).ret = elem_to_node("by_y", ret)

\* C21: the sentinel "null" node created inside splay never leaks: when any
\* operation returns, neither the tree's root, nor the left/right slot of any
\* node, nor the operation's returned node refers to the sentinel, and the
\* sentinel's own slots are gone with it.
C21_SentinelNeverLeaks ==
    /\ root # null
    /\ ret # null
    /\ null \notin DOMAIN left
    /\ null \notin DOMAIN right
    /\ \A n \in DOMAIN left : left[n] # null
    /\ \A n \in DOMAIN right : right[n] # null

\* A find that missed has splayed a tree of four or more: both of the
\* sentinel's slots carried a chain, now the root's two subtrees.
C21_Witness ==
    /\ op = "find"
    /\ ret = None
    /\ Cardinality(Content) >= 4
    /\ left[root] # None
    /\ right[root] # None

\* C22: the engine invokes the comparison capability only on nodes that are
\* linked into the tree being operated on when the call is made: never on the
\* splay sentinel, never on the node being inserted, and never on a node
\* already removed.
C22_ComparesLinkedOnly ==
    [][/\ op' = "insert" =>
            /\ insert(Heap, Query(KeyOf(arg')), arg').cmps \subseteq Content
            /\ arg' \notin insert(Heap, Query(KeyOf(arg')), arg').cmps
            /\ null \notin insert(Heap, Query(KeyOf(arg')), arg').cmps
       /\ op' \in {"find", "remove", "min", "max", "pop_root", "pop_min", "pop_max"} =>
            /\ CallOf(op', arg').cmps \subseteq Content
            /\ null \notin CallOf(op', arg').cmps
            /\ CallOf(op', arg').cmps \cap (Elems \ members) = {}]_vars

\* An insert into a tree of three or more has returned true after a splay
\* that compared the key with several nodes: the new root has a subtree on
\* either side, the left one more than a single node.
C22_Witness ==
    /\ op = "insert"
    /\ retb
    /\ Cardinality(Content) >= 4
    /\ left[root] # None
    /\ right[root] # None
    /\ right[left[root]] # None

\* C23: when find(k) returns empty on a non-empty tree (a near miss), the
\* splay has still moved the best match to the root: the root after the call
\* is either the element with the greatest key smaller than k or the element
\* with the smallest key greater than k.
C23_NearMissRoot ==
    (op = "find" /\ ret = None /\ root # None) =>
        /\ root \in Content
        /\ KeyOf(root) # arg
        /\ \/ /\ KeyOf(root) < arg
              /\ \A m \in Content : KeyOf(m) < arg => KeyOf(m) <= KeyOf(root)
           \/ /\ KeyOf(root) > arg
              /\ \A m \in Content : KeyOf(m) > arg => KeyOf(root) <= KeyOf(m)

\* A find missed between two keys of a tree of four: elements lie on either
\* side of the key, and the root is the nearest on one side.
C23_Witness ==
    /\ op = "find"
    /\ ret = None
    /\ Cardinality(Content) = 4
    /\ \E m \in Content : KeyOf(m) < arg /\ m # root
    /\ \E m \in Content : KeyOf(m) > arg /\ m # root

\* C24: find, min and max (whether they hit or miss) change only the tree's
\* shape: the set of elements in the tree and their in-order sequence are the
\* same after the call as before it, and no node outside the tree is written.
C24_QueriesKeepContent ==
    [][op' \in {"find", "min", "max"} =>
          /\ walk(Heap') = Walked
          /\ Range(walk(Heap')) = Content
          /\ members' = members
          /\ \A n \in Elems \ Content :
                left'[n] = left[n] /\ right'[n] = right[n]]_vars

\* A max or a find has reshaped a tree of five: the root has no right child
\* but its left child has one, with records left outside the tree.
C24_Witness ==
    /\ op \in {"find", "max"}
    /\ Cardinality(Content) = 5
    /\ right[root] = None
    /\ left[root] # None
    /\ right[left[root]] # None
    /\ Elems \ Content # {}

\* The sequence q without its entries equal to e.
Without(q, e) == SelectSeq(q, LAMBDA x : x # e)

\* The place of e in the sequence q.
IndexOf(q, e) == CHOOSE i \in 1..Len(q) : q[i] = e

\* C25: pop_root (and so remove, pop_min, pop_max) removes exactly the old
\* root and nothing else: afterwards the tree holds every other element in the
\* same in-order sequence; if the old root had a left subtree the new root is
\* the maximum of that left subtree with the old root's right subtree attached
\* as its right child, otherwise the new root is the old root's right child
\* (empty tree if it had none).  For remove, pop_min and pop_max the old root
\* is the one their splay put there, the element they return.
C25_PopRemovesOnlyRoot ==
    [][/\ (op' \in {"pop_root", "remove", "pop_min", "pop_max"} /\ ret' # None) =>
            /\ ret' \in Content
            /\ walk(Heap') = Without(Walked, ret')
            /\ IF IndexOf(Walked, ret') > 1
               THEN /\ root' = Walked[IndexOf(Walked, ret') - 1]
                    /\ InOrder(Heap', left'[root'], NumElems)
                         = SubSeq(Walked, 1, IndexOf(Walked, ret') - 2)
                    /\ InOrder(Heap', right'[root'], NumElems)
                         = SubSeq(Walked, IndexOf(Walked, ret') + 1, Len(Walked))
               ELSE /\ left[ret'] = None \/ op' # "pop_root"
                    /\ InOrder(Heap', root', NumElems) = Tail(Walked)
       /\ (op' = "pop_root" /\ root # None) =>
            /\ ret' = root
            /\ IF left[root] # None
               THEN /\ root' \in Range(InOrder(Heap, left[root], NumElems))
                    /\ \A m \in Range(InOrder(Heap, left[root], NumElems)) :
                          KeyOf(m) <= KeyOf(root')
                    /\ right'[root'] = right[root]
                    /\ \A n \in Range(InOrder(Heap, right[root], NumElems)) :
                          left'[n] = left[n] /\ right'[n] = right[n]
               ELSE root' = right[root]
       /\ (op' \in {"pop_root", "remove", "pop_min", "pop_max"} /\ ret' = None) =>
            walk(Heap') = Walked]_vars

\* pop_root has taken a root that had a subtree on either side out of a tree
\* of five or more: the new root keeps a left subtree of its own and has the
\* old root's right subtree, of two or more, as its right.
C25_Witness ==
    /\ op = "pop_root"
    /\ ret # None
    /\ Cardinality(Content) >= 4
    /\ left[root] # None
    /\ right[root] # None
    /\ (left[right[root]] # None \/ right[right[root]] # None)
    /\ \A m \in Range(InOrder(Heap, left[root], NumElems)) : KeyOf(m) < KeyOf(ret)
    /\ KeyOf(root) < KeyOf(ret)

\* C26: in the splay loop, when the key compares Less to the current node and
\* also Less to the current node's left child, a right rotation at the
\* current node is performed first (the left child becomes the subtree top,
\* the current node becomes its right child and takes the child's former
\* right subtree as its left subtree) before anything is linked into the
\* right accumulator; the Greater/Greater case mirrors this with a left
\* rotation and the left accumulator; and if the rotated-up node has no child
\* in that direction the loop stops with it as the splay result.
C26_ZigZigRotatesFirst ==
    [][/\ (loop.pc = "loop" /\ ~loop.s.brk /\ loop'.pc = "loop") =>
            LET s == loop.s
                t == loop'.s
                c == s.current
                l == s.left[c]
                r == s.right[c]
            IN /\ (/\ compare_to_node(loop.key, c) = "Less"
                   /\ l # None
                   /\ compare_to_node(loop.key, l) = "Less") =>
                      /\ t.right[l] = c
                      /\ t.left[c] = s.right[l]
                      /\ t.right[c] = s.right[c]
                      /\ t.right = [s.right EXCEPT ![l] = c]
                      /\ t.accL = s.accL
                      /\ IF s.left[l] = None
                         THEN /\ t.brk
                              /\ t.current = l
                              /\ t.accR = s.accR
                              /\ t.left = [s.left EXCEPT ![c] = s.right[l]]
                         ELSE /\ ~t.brk
                              /\ t.current = s.left[l]
                              /\ t.accR = l
                              /\ t.left = [s.left EXCEPT ![c] = s.right[l], ![s.accR] = l]
               /\ (/\ compare_to_node(loop.key, c) = "Greater"
                   /\ r # None
                   /\ compare_to_node(loop.key, r) = "Greater") =>
                      /\ t.left[r] = c
                      /\ t.right[c] = s.left[r]
                      /\ t.left[c] = s.left[c]
                      /\ t.left = [s.left EXCEPT ![r] = c]
                      /\ t.accR = s.accR
                      /\ IF s.right[r] = None
                         THEN /\ t.brk
                              /\ t.current = r
                              /\ t.accL = s.accL
                              /\ t.right = [s.right EXCEPT ![c] = s.left[r]]
                         ELSE /\ ~t.brk
                              /\ t.current = s.right[r]
                              /\ t.accL = r
                              /\ t.right = [s.right EXCEPT ![c] = s.left[r], ![s.accL] = r]
       /\ (loop.pc = "loop" /\ loop.s.brk /\ loop.node = None /\ loop'.pc = "idle") =>
            (root' = loop.s.current /\ ret' = loop.s.current)]_vars

\* The loop has stopped right after a rotation, in its second iteration or
\* later: the node it stopped at has the node it was rotated over as a child
\* and none on the other side, and a chain hangs off the sentinel.
C26_Witness ==
    /\ loop.pc = "loop"
    /\ loop.s.brk
    /\ loop.s.iters >= 2
    /\ \/ /\ compare_to_node(loop.key, loop.s.current) = "Less"
          /\ loop.s.left[loop.s.current] = None
          /\ loop.s.right[loop.s.current] # None
          /\ loop.s.cmps \cap {loop.s.right[loop.s.current]} # {}
          /\ loop.s.left[null] # None
       \/ /\ compare_to_node(loop.key, loop.s.current) = "Greater"
          /\ loop.s.right[loop.s.current] = None
          /\ loop.s.left[loop.s.current] # None
          /\ loop.s.cmps \cap {loop.s.left[loop.s.current]} # {}
          /\ loop.s.right[null] # None

\* The nodes strictly below n in the tree h.
Descendants(h, n) ==
    Range(InOrder(h, h.left[n], NumElems + 1))
        \cup Range(InOrder(h, h.right[n], NumElems + 1))

\* C27: a call terminates.  Every iteration of the splay loop either hits a
\* break or leaves the cursor on a strict descendant, in the tree the call
\* was made on, of the node the iteration started at; the loop has never run
\* more iterations than the tree has nodes; and a splay that has been entered
\* returns.
C27_SplayTerminates ==
    /\ [][(loop.pc = "loop" /\ loop'.pc = "loop") =>
            /\ loop'.s.brk \/ loop'.s.current \in Descendants(Heap, loop.s.current)
            /\ loop'.s.current \in {loop.s.current}
                                     \cup Descendants(Heap, loop.s.current)
            /\ loop'.s.iters = loop.s.iters + 1
            /\ loop'.s.iters <= Cardinality(Content)]_vars
    /\ (loop.pc = "loop") ~> (loop.pc = "idle")

\* A loop that has hit its break in its fourth iteration or later.
C27_Witness ==
    /\ loop.pc = "loop"
    /\ loop.s.brk
    /\ loop.s.iters >= 4

\* A sequence of keys goes up at every step.
StrictlyIncreasing(q) == \A i \in 1..(Len(q) - 1) : q[i] < q[i + 1]

ValidTree(h) ==
    LET w == walk(h)
        S == Range(w)
    IN /\ Len(w) = Cardinality(S)
       /\ StrictlyIncreasing(KeysOf(w))
       /\ \A n \in S :
             Cardinality({p \in S : h.left[p] = n})
                + Cardinality({p \in S : h.right[p] = n})
                = (IF n = h.root THEN 0 ELSE 1)

\* C29: inserting again an element that is linked in the tree, in a call the
\* assertion does not stop (a build without assertions, or an element whose
\* slots are both empty), returns false and leaves a valid acyclic binary
\* search tree with the same elements: the element is splayed to the root
\* and the in-order walk is the one before the call.
C29_ReinsertKeepsTree ==
    [][(op' \in {"reinsert", "reinsert_release"} /\ ~panic') =>
          /\ arg' \in members
          /\ retb' = FALSE
          /\ ret' = None
          /\ root' = arg'
          /\ members' = members
          /\ walk(Heap') = Walked
          /\ Range(walk(Heap')) = members
          /\ ValidTree(Heap')]_vars

\* A release build has taken again an element that its debug build refuses:
\* the element is the root of a tree of five or more and has two subtrees.
C29_Witness ==
    /\ op = "reinsert_release"
    /\ root = arg
    /\ ~retb
    /\ left[arg] # None
    /\ right[arg] # None
    /\ Cardinality(Content) >= 5

\* C30: in every state between operations, every element that is not in the
\* tree (never inserted, refused as a duplicate, or handed back by remove,
\* pop_root, pop_min or pop_max) has both of its slots empty, so the only
\* calls the assertion at the start of insert stops are those for an element
\* that is linked in the tree.
C30_UnlinkedSlotsEmpty ==
    /\ \A e \in Elems \ Content : left[e] = None /\ right[e] = None
    /\ panic => (op = "reinsert" /\ arg \in Content)
    /\ op = "insert" => ~panic

\* An insert was accepted, without a panic, into a tree of three or more while
\* a record whose key is in the tree and a record whose key is not are outside
\* it.
C30_Witness ==
    /\ op = "insert"
    /\ retb
    /\ ~panic
    /\ Cardinality(Content) >= 3
    /\ \E e \in Elems \ Content : \E m \in Content : KeyOf(e) = KeyOf(m)
    /\ \E e \in Elems \ Content : \A m \in Content : KeyOf(e) # KeyOf(m)

\* The calls that take an element out of the tree.
Removals == {"remove", "pop_root", "pop_min", "pop_max"}

\* insert(e) on the tree h gives back the walk `before` with e at the root.
RoundTrip(h, e, before) ==
    LET r == insert(h, Query(KeyOf(e)), e)
    IN /\ r.retb
       /\ ~r.panic
       /\ r.root = e
       /\ walk(r) = before

\* C31: round trip.  Whenever remove, pop_root, pop_min or pop_max has
\* returned an element e, insert(e) called on the tree the removal left
\* returns true without a panic and yields a tree with e at the root that
\* holds exactly the elements held before the removal, in the same order;
\* and a step of the caller that makes this insert right after the removal
\* shows the same.
C31_RemoveInsertRoundTrip ==
    [][/\ (op' \in Removals /\ ret' # None) => RoundTrip(Heap', ret', Walked)
       /\ (op \in Removals /\ ret # None /\ op' = "insert" /\ arg' = ret) =>
             /\ retb'
             /\ ~panic'
             /\ root' = ret
             /\ Content' = Content \cup {ret}]_vars

\* A removal has handed back an element that was not the root's neighbour on
\* one side only: the tree it left holds four or more elements, some smaller
\* and some greater than the one returned, which insert will accept.
C31_Witness ==
    /\ op \in Removals
    /\ ret # None
    /\ Cardinality(Content) >= 4
    /\ \E m \in Content : KeyOf(m) < KeyOf(ret)
    /\ \E m \in Content : KeyOf(m) > KeyOf(ret)
    /\ insert(Heap, Query(KeyOf(ret)), ret).retb

====
